---------------------------- MODULE Spec2Model ----------------------------
(***************************************************************************)
(* A model of the Kademlia node of this repository: node identity and XOR  *)
(* distance (kademlia/node.py), the bounded candidate heap NodeHeap        *)
(* (kademlia/node.py), the protocol handlers (kademlia/protocol.py), and   *)
(* the collaborators whose code is not part of the source tree (routing    *)
(* table, storage, RPC transaction layer, crawler), which are modelled     *)
(* from their description in spec.md and marked so in MODEL_MAP.json.      *)
(***************************************************************************)
EXTENDS Integers, Sequences, FiniteSets, TLC

(***************************************************************************)
(* Bounds of the model.                                                    *)
(***************************************************************************)
\* width of one identifier byte, in bits (8 in the program)
ByteBits == 2
\* number of bytes of an identifier (20 in the program)
IdBytes == 2
\* ksize, the capacity of a k-bucket and the default k of find_neighbors
KSize == 2
\* the largest maxsize of a NodeHeap
MaxSize == 2
\* the longest list given to NodeHeap.push and to NodeHeap.remove
MaxPush == 2
MaxRemove == 2
\* the number of outbound calls made
MaxCalls == 2
\* alpha, the number of peers a crawl queries in one round
Alpha == 2
\* ksize of a crawl, the bound of its heap
CrawlKSize == 3

ByteBase == 2 ^ ByteBits
IdSpace == ByteBase ^ IdBytes

(***************************************************************************)
(* Identifiers are byte strings; long_id is their big-endian integer.      *)
(***************************************************************************)
Ids == [1..IdBytes -> 0..(ByteBase - 1)]

RECURSIVE BytesToInt(_, _)
BytesToInt(b, n) ==
    IF n = 0 THEN 0 ELSE (BytesToInt(b, n - 1) * ByteBase) + b[n]

\* hex_to_base_int(node_id.hex()): the identifier read as a big-endian integer
hex_to_base_int(id) == BytesToInt(id, IdBytes)

\* int.to_bytes(IdBytes, byteorder='big')
to_bytes(n) ==
    [i \in 1..IdBytes |-> (n \div (ByteBase ^ (IdBytes - i))) % ByteBase]

\* Python's ^ on non-negative integers
RECURSIVE BitXor(_, _)
BitXor(a, b) ==
    IF a = 0 THEN b
    ELSE IF b = 0 THEN a
    ELSE (((a % 2) + (b % 2)) % 2) + (2 * BitXor(a \div 2, b \div 2))

\* Node(node_id, ip, port); addr stands for the pair (ip, port)
Node(id, addr) == [id |-> id, addr |-> addr, long_id |-> hex_to_base_int(id)]

\* Node(node_id) with no address, as built for a key
NoAddr == "none"
KeyNode(id) == Node(id, NoAddr)

\* the XOR of every pair of long ids, tabulated once
XorTable == [a \in 0..(IdSpace - 1) |-> [b \in 0..(IdSpace - 1) |-> BitXor(a, b)]]

\* the XOR of the last bytes of the long ids only
distance_to_low_byte(a, b) == XorTable[a.long_id % ByteBase][b.long_id % ByteBase]

\* Node.distance_to
distance_to(a, b) == XorTable[a.long_id][b.long_id]

\* Node.__eq__ / is_same_node: same (ip, port)
is_same_node(a, b) == a.addr = b.addr

\* digest(key): a deterministic hash into the identifier space
digest(key) == to_bytes(((7 * hex_to_base_int(key)) + 3) % IdSpace)

(***************************************************************************)
(* The routing table (kademlia/routing.py is not part of the source tree;  *)
(* modelled from spec.md sections 3 and 4.1).  A table is a sequence of    *)
(* buckets [lo, hi, nodes], each covering the half-open range [lo, hi) and *)
(* holding at most KSize nodes, least recently seen first.                 *)
(***************************************************************************)
\* identifiers used by the checked configurations
OwnerId == to_bytes(5)
PeerIds == {to_bytes(1), to_bytes(9), to_bytes(12), to_bytes(14)}
KeyIds == {to_bytes(3), to_bytes(11)}

\* the address at which the peer with a given identifier lives
AddrOf(id) == <<"10.0.0.1", 8000 + hex_to_base_int(id)>>
PeerOf(id) == Node(id, AddrOf(id))
Peers == {PeerOf(id) : id \in PeerIds}

\* KademliaProtocol.source_node
source_node == PeerOf(OwnerId)

SeqRange(s) == {s[i] : i \in 1..Len(s)}

InitBuckets == << [lo |-> 0, hi |-> IdSpace, nodes |-> <<>>] >>

Covers(b, n) == b.lo <= n.long_id /\ n.long_id < b.hi

get_bucket_for(bk, n) == CHOOSE i \in 1..Len(bk) : Covers(bk[i], n)

BucketIds(b) == {x.id : x \in SeqRange(b.nodes)}

Known(bk) == UNION {SeqRange(bk[i].nodes) : i \in 1..Len(bk)}

KnownIds(bk) == {x.id : x \in Known(bk)}

\* RoutingTable.is_new_node: the peer is absent from all buckets
is_new_node(bk, n) == \A i \in 1..Len(bk) : n.id \notin BucketIds(bk[i])

WithoutId(nodes, id) ==
    LET Keep(x) == x.id # id IN SelectSeq(nodes, Keep)

\* RoutingTable.remove_contact: delete the peer, unconditionally
remove_contact(bk, n) ==
    LET i == get_bucket_for(bk, n)
    IN [bk EXCEPT ![i].nodes = WithoutId(@, n.id)]

\* split bucket i at the middle of its range
split_bucket(bk, i) ==
    LET b == bk[i]
        mid == (b.lo + b.hi) \div 2
        InLow(x) == x.long_id < mid
        InHigh(x) == x.long_id >= mid
        low == [lo |-> b.lo, hi |-> mid, nodes |-> SelectSeq(b.nodes, InLow)]
        high == [lo |-> mid, hi |-> b.hi, nodes |-> SelectSeq(b.nodes, InHigh)]
    IN SubSeq(bk, 1, i - 1) \o <<low, high>> \o SubSeq(bk, i + 1, Len(bk))

\* add_contact that appends to the bucket whatever it holds
add_contact_unbounded(bk, n) ==
    LET i == get_bucket_for(bk, n)
    IN [bk |-> [bk EXCEPT ![i].nodes = Append(WithoutId(@, n.id), n)],
        pings |-> <<>>]

\* RoutingTable.add_contact: insert or refresh the peer in the bucket covering
\* its identifier; a full bucket covering the owner's identifier is split; any
\* other full bucket is left as it is and its oldest entry is to be pinged.
RECURSIVE add_contact(_, _)
add_contact(bk, n) ==
    LET i == get_bucket_for(bk, n)
        b == bk[i]
    IN IF n.id \in BucketIds(b)
       THEN [bk |-> [bk EXCEPT ![i].nodes = Append(WithoutId(@, n.id), n)],
             pings |-> <<>>]
       ELSE IF Len(b.nodes) < KSize
       THEN [bk |-> [bk EXCEPT ![i].nodes = Append(@, n)], pings |-> <<>>]
       ELSE IF Covers(b, source_node) /\ b.hi - b.lo > 1
       THEN add_contact(split_bucket(bk, i), n)
       ELSE [bk |-> bk, pings |-> <<b.nodes[1]>>]

RECURSIVE SortByDistance(_, _)
SortByDistance(S, target) ==
    IF S = {} THEN <<>>
    ELSE LET m == CHOOSE x \in S :
                    \A y \in S : distance_to(x, target) <= distance_to(y, target)
         IN <<m>> \o SortByDistance(S \ {m}, target)

Take(s, k) == SubSeq(s, 1, IF Len(s) < k THEN Len(s) ELSE k)

\* no peer to exclude
NoNode == Node(to_bytes(0), NoAddr)

\* RoutingTable.find_neighbors(node, k, exclude): up to k known peers in
\* ascending distance to node, without the peer living at exclude's address
find_neighbors(bk, target, k, exclude) ==
    Take(SortByDistance({x \in Known(bk) : ~is_same_node(x, exclude)}, target), k)

(***************************************************************************)
(* Storage (kademlia/storage.py is not part of the source tree; modelled   *)
(* from spec.md section 3): a map from key to value; an entry older than   *)
(* the TTL is invisible.  Absent marks a key with no visible entry.        *)
(***************************************************************************)
Absent == "absent"
\* Python's None
PyNone == "None"
Values == {PyNone, "v1"}

\* a value of no storable type
Unstorable == "object"

\* check_dht_value_type(value), the validity check of a value to store
check_dht_value_type(value) == value # Unstorable

\* Resource.has_valid_value
has_valid_value(value) == check_dht_value_type(value)

EmptyStorage == [k \in KeyIds |-> Absent]

\* storage[key] = value
storage_set(st, key, value) == [st EXCEPT ![key] = value]

\* storage.get(key, default)
storage_get(st, key, default) == IF st[key] = Absent THEN default ELSE st[key]

StoredKeys(st) == {k \in KeyIds : st[k] # Absent}

RECURSIVE KeysInOrder(_)
KeysInOrder(K) ==
    IF K = {} THEN <<>>
    ELSE LET m == CHOOSE x \in K :
                    \A y \in K : hex_to_base_int(x) <= hex_to_base_int(y)
         IN <<m>> \o KeysInOrder(K \ {m})

\* iter(storage): the visible (key, value) pairs
storage_items(st) ==
    LET ks == KeysInOrder(StoredKeys(st))
    IN [i \in 1..Len(ks) |-> <<ks[i], st[ks[i]]>>]

(***************************************************************************)
(* The protocol handlers of kademlia/protocol.py, as functions of the      *)
(* routing table bk and the storage st.  Each yields the new table and     *)
(* storage, the calls it spawned with asyncio.ensure_future (in order),    *)
(* how many times it invoked welcome_if_new, how many neighbour lookups    *)
(* rpc_find_node made for it, and its result.                              *)
(***************************************************************************)
\* results are tagged with their Python type
RetNone == [tag |-> "none", val |-> PyNone]
RetId(id) == [tag |-> "bytes", val |-> id]
RetBool(b) == [tag |-> "bool", val |-> b]
RetList(l) == [tag |-> "list", val |-> l]
RetDict(v) == [tag |-> "dict", val |-> [value |-> v]]

\* an outbound call: call_ping(peer), call_store(peer, key, value), ...
Call(kind, peer, key, value) ==
    [kind |-> kind, peer |-> peer, key |-> key, value |-> value]
NoKey == to_bytes(0)

\* republish_to with "or" for "and" in the test of line 224
republish_to_either(bk, key, node) ==
    LET keynode == KeyNode(digest(key))
        neighbors == find_neighbors(bk, keynode, KSize, NoNode)
    IN IF neighbors = <<>> THEN TRUE
       ELSE LET last == distance_to(neighbors[Len(neighbors)], keynode)
                new_node_close == distance_to(node, keynode) < last
                first == distance_to(neighbors[1], keynode)
                this_closest == distance_to(source_node, keynode) < first
            IN new_node_close \/ this_closest

\* welcome_if_new, lines 217-224: whether (key, value) goes to the new node
republish_to(bk, key, node) ==
    LET keynode == KeyNode(digest(key))
        neighbors == find_neighbors(bk, keynode, KSize, NoNode)
    IN IF neighbors = <<>> THEN TRUE
       ELSE LET last == distance_to(neighbors[Len(neighbors)], keynode)
                new_node_close == distance_to(node, keynode) < last
                first == distance_to(neighbors[1], keynode)
                this_closest == distance_to(source_node, keynode) < first
            IN new_node_close /\ this_closest

\* the calls welcome_if_new spawns for a node, and the table it leaves
Welcomed(bk, st, node) ==
    LET items == storage_items(st)
        Goes(kv) == republish_to(bk, kv[1], node)
        sel == SelectSeq(items, Goes)
        stores == [i \in 1..Len(sel) |->
                      Call("store", node, sel[i][1], sel[i][2])]
        ac == add_contact(bk, node)
        pings == [i \in 1..Len(ac.pings) |->
                      Call("ping", ac.pings[i], NoKey, PyNone)]
    IN [bk |-> ac.bk, spawned |-> stores \o pings]

\* welcome_if_new without the is_new_node test of line 212
welcome_if_new_always(bk, st, node) == Welcomed(bk, st, node)

\* welcome_if_new without the add_contact of line 226
welcome_if_new_no_add(bk, st, node) ==
    IF ~is_new_node(bk, node)
    THEN [bk |-> bk, spawned |-> <<>>]
    ELSE [bk |-> bk, spawned |-> Welcomed(bk, st, node).spawned]

\* KademliaProtocol.welcome_if_new
welcome_if_new(bk, st, node) ==
    IF ~is_new_node(bk, node)
    THEN [bk |-> bk, spawned |-> <<>>]
    ELSE Welcomed(bk, st, node)

Outcome(bk, st, spawned, welcomes, lookups, ret) ==
    [bk |-> bk, st |-> st, spawned |-> spawned, welcomes |-> welcomes,
     lookups |-> lookups, ret |-> ret]

\* KademliaProtocol.rpc_ping
rpc_ping(bk, st, sender, node_id) ==
    LET source == Node(node_id, sender)
        w == welcome_if_new(bk, st, source)
    IN Outcome(w.bk, st, w.spawned, 1, 0, RetId(source_node.id))

\* KademliaProtocol.rpc_store
rpc_store(bk, st, sender, node_id, key, value) ==
    LET source == Node(node_id, sender)
        w == welcome_if_new(bk, st, source)
    IN Outcome(w.bk, storage_set(st, key, value), w.spawned, 1, 0, RetBool(TRUE))

\* list(map(tuple, neighbors)): (id, ip, port) triples
Triples(nodes) == [i \in 1..Len(nodes) |-> <<nodes[i].id, nodes[i].addr>>]

\* rpc_find_node without exclude=source in the call of line 116
rpc_find_node_no_exclude(bk, st, sender, node_id, key) ==
    LET source == Node(node_id, sender)
        w == welcome_if_new(bk, st, source)
        node == KeyNode(key)
        neighbors == find_neighbors(w.bk, node, KSize, NoNode)
    IN Outcome(w.bk, st, w.spawned, 1, 1, RetList(Triples(neighbors)))

\* KademliaProtocol.rpc_find_node
rpc_find_node(bk, st, sender, node_id, key) ==
    LET source == Node(node_id, sender)
        w == welcome_if_new(bk, st, source)
        node == KeyNode(key)
        neighbors == find_neighbors(w.bk, node, KSize, source)
    IN Outcome(w.bk, st, w.spawned, 1, 1, RetList(Triples(neighbors)))

\* KademliaProtocol.rpc_find_value
rpc_find_value(bk, st, sender, node_id, key) ==
    LET source == Node(node_id, sender)
        w == welcome_if_new(bk, st, source)
        value == storage_get(st, key, PyNone)
    IN IF value = PyNone
       THEN LET f == rpc_find_node(w.bk, st, sender, node_id, key)
            IN Outcome(f.bk, f.st, w.spawned \o f.spawned, 1 + f.welcomes,
                       f.lookups, f.ret)
       ELSE Outcome(w.bk, st, w.spawned, 1, 0, RetDict(value))

\* the result of an RPC that timed out: (False, None)
FailedResult == <<FALSE, RetNone>>

\* handle_call_response without the remove_contact of line 235
handle_call_response_keeps_peer(bk, st, result, node) ==
    IF ~result[1]
    THEN Outcome(bk, st, <<>>, 0, 0, result)
    ELSE LET w == welcome_if_new(bk, st, node)
         IN Outcome(w.bk, st, w.spawned, 1, 0, result)

\* KademliaProtocol.handle_call_response; the result is returned as it came
handle_call_response(bk, st, result, node) ==
    IF ~result[1]
    THEN Outcome(remove_contact(bk, node), st, <<>>, 0, 0, result)
    ELSE LET w == welcome_if_new(bk, st, node)
         IN Outcome(w.bk, st, w.spawned, 1, 0, result)

(***************************************************************************)
(* NodeHeap (kademlia/node.py): self.heap is a Python list kept in heap    *)
(* order by heapq; its entries are the tuples (distance, node).            *)
(***************************************************************************)
\* (distance, node) < (distance', node'): the distances of nodes with
\* different identifiers differ, so the comparison is settled by them
EntryLt(a, b) == a[1] < b[1]

\* heapq._siftdown(heap, startpos, pos), positions counted from 1
RECURSIVE siftdown(_, _, _, _)
siftdown(h, startpos, pos, newitem) ==
    IF pos > startpos /\ EntryLt(newitem, h[pos \div 2])
    THEN siftdown([h EXCEPT ![pos] = h[pos \div 2]], startpos, pos \div 2, newitem)
    ELSE [h EXCEPT ![pos] = newitem]

\* heapq.heappush
\* (CHOOSE r \in {e(x) : x \in {v}} : TRUE is e(v); it computes v once)
heappush(h, item) ==
    CHOOSE r \in {siftdown(Append(hv, item), 1, Len(hv) + 1, item) : hv \in {h}} : TRUE

\* heapq._siftup(heap, pos), positions counted from 1
RECURSIVE siftup(_, _, _, _)
siftup(h, startpos, pos, newitem) ==
    LET childpos == 2 * pos
        rightpos == childpos + 1
        c == IF rightpos <= Len(h) /\ ~EntryLt(h[childpos], h[rightpos])
             THEN rightpos ELSE childpos
    IN IF childpos <= Len(h)
       THEN siftup([h EXCEPT ![pos] = h[c]], startpos, c, newitem)
       ELSE siftdown([h EXCEPT ![pos] = newitem], startpos, pos, newitem)

\* heapq.heappop of a non-empty heap: the item popped and the heap left
heappop(h) ==
    LET lastelt == h[Len(h)]
        rest == SubSeq(h, 1, Len(h) - 1)
    IN IF rest # <<>>
       THEN [item |-> rest[1], heap |-> siftup(rest, 1, 1, lastelt)]
       ELSE [item |-> lastelt, heap |-> rest]

RECURSIVE InsertSorted(_, _)
InsertSorted(s, x) ==
    IF s = <<>> THEN <<x>>
    ELSE IF EntryLt(x, Head(s)) THEN <<x>> \o s
    ELSE <<Head(s)>> \o InsertSorted(Tail(s), x)

RECURSIVE Sorted(_)
Sorted(s) ==
    IF s = <<>> THEN <<>>
    ELSE CHOOSE r \in {InsertSorted(rest, Head(s)) : rest \in {Sorted(Tail(s))}} : TRUE

\* heapq.nsmallest(n, heap): the n smallest entries, ascending
nsmallest(n, h) == Take(Sorted(h), n)

\* NodeHeap.__len__
heap_len(h, m) == IF Len(h) < m THEN Len(h) ELSE m

\* iter(first maxsize entries of the list) in place of heapq.nsmallest
heap_iter_unsorted(h, m) ==
    LET nodes == Take(h, m) IN [i \in 1..Len(nodes) |-> nodes[i][2]]

\* NodeHeap.__iter__
heap_iter(h, m) ==
    CHOOSE r \in {[i \in 1..Len(nodes) |-> nodes[i][2]] : nodes \in {nsmallest(m, h)}} : TRUE

\* __contains__ with Node.__eq__ (same ip and port) for the test on node.id
heap_contains_same_node(h, node) == \E i \in 1..Len(h) : is_same_node(node, h[i][2])

\* NodeHeap.__contains__
heap_contains(h, node) == \E i \in 1..Len(h) : node.id = h[i][2].id

\* NodeHeap.push without the test of line 170
RECURSIVE heap_push_all(_, _, _)
heap_push_all(h, ref, nodes) ==
    IF nodes = <<>> THEN h
    ELSE heap_push_all(heappush(h, <<distance_to(ref, Head(nodes)), Head(nodes)>>),
                       ref, Tail(nodes))

\* NodeHeap.push(nodes) for a list of nodes
RECURSIVE heap_push(_, _, _)
heap_push(h, ref, nodes) ==
    IF nodes = <<>> THEN h
    ELSE LET node == Head(nodes)
             distance == distance_to(ref, node)
             pushed1 == IF ~heap_contains(h, node)
                        THEN heappush(h, <<distance, node>>)
                        ELSE h
         IN CHOOSE r \in {heap_push(nh, ref, Tail(nodes)) : nh \in {pushed1}} : TRUE

\* NodeHeap.push(node), lines 166-167: a single node is a list of one
heap_push_node(h, ref, node) == heap_push(h, ref, <<node>>)

RECURSIVE PushKept(_, _, _)
PushKept(h, peers, nheap) ==
    IF h = <<>> THEN nheap
    ELSE PushKept(Tail(h), peers,
                  IF Head(h)[2].id \notin peers
                  THEN heappush(nheap, Head(h)) ELSE nheap)

\* remove that prunes the first identifier of the list only
heap_remove_first(h, peers) ==
    IF SeqRange(peers) = {} THEN h ELSE PushKept(h, {peers[1]}, <<>>)

\* NodeHeap.remove(peers) for a list of identifiers
heap_remove(h, peers) ==
    IF SeqRange(peers) = {} THEN h ELSE PushKept(h, SeqRange(peers), <<>>)

\* the not-found result of popleft and get_node
NoneNode == Node(to_bytes(0), "None")

\* NodeHeap.popleft: the node returned (or None) and the heap left
heap_popleft(h, m) ==
    IF heap_len(h, m) # 0
    THEN LET r == heappop(h) IN [ret |-> r.item[2], heap |-> r.heap]
    ELSE [ret |-> NoneNode, heap |-> h]

\* NodeHeap.get_node
heap_get_node(h, node_id) ==
    IF \E i \in 1..Len(h) : h[i][2].id = node_id
    THEN h[CHOOSE i \in 1..Len(h) :
               /\ h[i][2].id = node_id
               /\ \A j \in 1..(i - 1) : h[j][2].id # node_id][2]
    ELSE NoneNode

\* NodeHeap.get_ids
heap_get_ids(h, m) ==
    LET it == heap_iter(h, m) IN [i \in 1..Len(it) |-> it[i].id]

\* get_uncontacted without the test against the contacted set
get_uncontacted_any(h, m, c) == heap_iter(h, m)

\* NodeHeap.get_uncontacted
get_uncontacted(h, m, c) ==
    LET NotContacted(n) == n.id \notin c
    IN CHOOSE r \in {SelectSeq(it, NotContacted) : it \in {heap_iter(h, m)}} : TRUE

\* NodeHeap.have_contacted_all
have_contacted_all(h, m, c) == Len(get_uncontacted(h, m, c)) = 0

\* mark_contacted that forgets the marks made before
mark_contacted_alone(c, node) == {node.id}

\* NodeHeap.mark_contacted
mark_contacted(c, node) == c \cup {node.id}

(***************************************************************************)
(* State.                                                                  *)
(***************************************************************************)
VARIABLES
    buckets,    \* KademliaProtocol.router: the routing table
    storage,    \* KademliaProtocol.storage
    last,       \* the operation that led to this state: its arguments and outcome
    written,    \* per key, the value rpc_store last wrote, while within its TTL
    heap,       \* NodeHeap.heap
    contacted,  \* NodeHeap.contacted
    maxsize,    \* NodeHeap.maxsize
    hlast,      \* the NodeHeap operation that led to this state
    pushed,     \* the identifiers pushed so far, while only push was used
    pending,    \* the PendingCall table: transaction id -> the call awaiting it
    started,    \* the number of transaction ids allocated
    requests,   \* the request datagrams sent, in order
    datagrams,  \* the transaction ids with a reply datagram in flight
    answered,   \* the transaction ids whose request the peer has answered
    resolved,   \* per transaction id, the results its caller was resumed with
    rlast,      \* the transport event that led to this state
    crawl,      \* the crawl under way: its kind, target, phase and round
    queried,    \* the peers the crawl has queried, in order
    tasks,      \* the calls scheduled with asyncio.ensure_future, not yet started
    pair,       \* two nodes whose distance is measured
    dist        \* the distances measured between them

protoVars == <<buckets, storage, last, written>>
heapVars == <<heap, contacted, maxsize, hlast, pushed>>
rpcVars == <<pending, started, requests, datagrams, answered, resolved, rlast>>
crawlVars == <<crawl, queried>>
taskVars == <<tasks>>
distVars == <<pair, dist>>
vars == <<protoVars, heapVars, rpcVars, crawlVars, taskVars, distVars>>

NoOp ==
    [op |-> "init", peer |-> NoNode, key |-> NoKey, value |-> PyNone,
     result |-> FailedResult,
     out |-> Outcome(InitBuckets, EmptyStorage, <<>>, 0, 0, RetNone),
     wasNew |-> TRUE, wasFull |-> FALSE, held |-> FALSE]

Done(op, peer, key, value, result, out) ==
    [op |-> op, peer |-> peer, key |-> key, value |-> value, result |-> result,
     out |-> out,
     \* when the operation started: whether peer was unknown, whether the
     \* bucket covering it was full, and whether key was held
     wasNew |-> is_new_node(buckets, peer),
     wasFull |-> Len(buckets[get_bucket_for(buckets, peer)].nodes) >= KSize,
     held |-> key \in StoredKeys(storage)]

\* NodeHeap.node, the node all distances are measured from
HeapRef == PeerOf(to_bytes(6))
\* the nodes pushed on the heap by the checked configurations
HeapPeerIds == {to_bytes(3), to_bytes(5), to_bytes(15)}
\* a node with the identifier of one of them, living at another address
SameIdNode == Node(to_bytes(15), <<"10.0.0.2", 9000>>)
HeapPeers == {PeerOf(id) : id \in HeapPeerIds} \cup {SameIdNode}

\* a NodeHeap operation, its arguments and the node it returned
HeapOp(op, nodes, ids, ret) ==
    [op |-> op, nodes |-> nodes, ids |-> ids, ret |-> ret,
     \* when the operation started: the identifiers held and those visible
     held |-> {heap[i][2].id : i \in 1..Len(heap)},
     visible |-> SeqRange(heap_get_ids(heap, maxsize))]

\* a transport event: the transaction id, and whether the reply was dropped
Event(op, tx, ignored) == [op |-> op, txid |-> tx, ignored |-> ignored]
NoEvent == Event("init", 0, FALSE)

\* results a call can resume with: the timeout result or a reply
CallResults == {FailedResult, <<TRUE, RetBool(TRUE)>>}

Apply(op, peer, key, value, result, out) ==
    /\ buckets' = out.bk
    /\ storage' = out.st
    /\ last' = Done(op, peer, key, value, result, out)
    /\ written' = IF op = "rpc_store" THEN [written EXCEPT ![key] = value]
                  ELSE IF op = "expire" THEN [written EXCEPT ![key] = Absent]
                  ELSE written
    /\ UNCHANGED <<heapVars, rpcVars, crawlVars, distVars>>

(***************************************************************************)
(* The protocol: inbound requests from any peer, the outcome of any        *)
(* outbound call, and the expiry of a stored entry.  The calls a handler   *)
(* spawns are recorded in last.out.spawned; here they are not followed one *)
(* by one: HandleCallResponse stands for the outcome of any of them.       *)
(***************************************************************************)
RpcPing(p) ==
    /\ Apply("rpc_ping", p, NoKey, PyNone, FailedResult,
                 rpc_ping(buckets, storage, p.addr, p.id))
    /\ UNCHANGED taskVars

RpcStore(p, k, v) ==
    /\ Apply("rpc_store", p, k, v, FailedResult,
                 rpc_store(buckets, storage, p.addr, p.id, k, v))
    /\ UNCHANGED taskVars

RpcFindNode(p, k) ==
    /\ Apply("rpc_find_node", p, k, PyNone, FailedResult,
                 rpc_find_node(buckets, storage, p.addr, p.id, k))
    /\ UNCHANGED taskVars

RpcFindValue(p, k) ==
    /\ Apply("rpc_find_value", p, k, PyNone, FailedResult,
                 rpc_find_value(buckets, storage, p.addr, p.id, k))
    /\ UNCHANGED taskVars

HandleCallResponse(result, p) ==
    /\ Apply("handle_call_response", p, NoKey, PyNone, result,
                 handle_call_response(buckets, storage, result, p))
    /\ UNCHANGED taskVars

\* the entry of key k outlives its TTL and is no longer visible
Expire(k) ==
    /\ storage[k] # Absent
    /\ Apply("expire", NoNode, k, PyNone, FailedResult,
             Outcome(buckets, [storage EXCEPT ![k] = Absent], <<>>, 0, 0, RetNone))
    /\ UNCHANGED taskVars

\* a protocol with an empty routing table and an empty storage
ProtoInit ==
    /\ buckets = InitBuckets
    /\ storage = EmptyStorage
    /\ last = NoOp
    /\ written = EmptyStorage

\* NodeHeap.__init__, with a given maxsize
HeapInit(m) ==
    /\ heap = <<>>
    /\ maxsize = m
    /\ contacted = {}
    /\ hlast = HeapOp("init", <<>>, {}, NoneNode)
    /\ pushed = [only |-> TRUE, ids |-> {}]

\* no call was ever made
RpcInit ==
    /\ pending = <<>>
    /\ started = 0
    /\ requests = <<>>
    /\ datagrams = {}
    /\ answered = {}
    /\ resolved = <<>>
    /\ rlast = NoEvent

\* nothing is scheduled
NoTasks == tasks = <<>>

\* no distance was measured
NoDist == [ab |-> 0, ba |-> 0, aa |-> 0, bb |-> 0, measured |-> FALSE]
DistIdle ==
    /\ pair = <<NoNode, NoNode>>
    /\ dist = NoDist

\* no crawl is under way
NoCrawl ==
    [phase |-> "idle", kind |-> "node", target |-> NoKey, calls |-> <<>>,
     closest |-> NoKey, found |-> Absent,
     \* for the properties: the identifiers the routing table held when the
     \* crawl began, and the peers of the rounds in which every call timed out
     table |-> {}, dropped |-> {}]
CrawlIdle ==
    /\ crawl = NoCrawl
    /\ queried = <<>>

Init ==
    /\ ProtoInit
    /\ HeapInit(KSize)
    /\ RpcInit
    /\ CrawlIdle
    /\ NoTasks
    /\ DistIdle

Next ==
    \/ \E p \in Peers : RpcPing(p)
    \/ \E p \in Peers, k \in KeyIds, v \in Values : RpcStore(p, k, v)
    \/ \E p \in Peers, k \in KeyIds : RpcFindNode(p, k)
    \/ \E p \in Peers, k \in KeyIds : RpcFindValue(p, k)
    \/ \E p \in Peers, r \in CallResults : HandleCallResponse(r, p)
    \/ \E k \in KeyIds : Expire(k)

Spec == Init /\ [][Next]_vars

(***************************************************************************)
(* Node.distance_to on its own: any two nodes, of any identifiers, living  *)
(* at two addresses, and the distances measured between them.              *)
(***************************************************************************)
\* the all-zero and the all-one identifier
AllZeroId == [i \in 1..IdBytes |-> 0]
AllOneId == [i \in 1..IdBytes |-> ByteBase - 1]

FirstAddr == <<"10.0.0.1", 8000>>
SecondAddr == <<"10.0.0.2", 9000>>

\* a.distance_to(b), b.distance_to(a), a.distance_to(a), b.distance_to(b)
Measure ==
    /\ ~dist.measured
    /\ dist' = [ab |-> distance_to(pair[1], pair[2]),
                ba |-> distance_to(pair[2], pair[1]),
                aa |-> distance_to(pair[1], pair[1]),
                bb |-> distance_to(pair[2], pair[2]),
                measured |-> TRUE]
    /\ UNCHANGED <<pair, protoVars, heapVars, rpcVars, crawlVars, taskVars>>

InitDistance ==
    /\ ProtoInit
    /\ HeapInit(KSize)
    /\ RpcInit
    /\ CrawlIdle
    /\ NoTasks
    /\ pair \in {<<Node(a, FirstAddr), Node(b, SecondAddr)>> : a \in Ids, b \in Ids}
    /\ dist = NoDist

NextDistance == Measure

SpecDistance == InitDistance /\ [][NextDistance]_vars

(***************************************************************************)
(* Store requests with any payload, storable or not, and the reads and     *)
(* expiries that follow them.                                              *)
(***************************************************************************)
StoreValues == Values \cup {Unstorable}

InitStore == Init

NextStore ==
    \/ \E p \in Peers, k \in KeyIds, v \in StoreValues : RpcStore(p, k, v)
    \/ \E p \in Peers, k \in KeyIds : RpcFindValue(p, k)
    \/ \E k \in KeyIds : Expire(k)

SpecStore == InitStore /\ [][NextStore]_vars

(***************************************************************************)
(* NodeHeap on its own: any sequence of push, remove, popleft and          *)
(* mark_contacted on a heap of any maxsize from 0 to MaxSize.              *)
(***************************************************************************)
\* the lists of at most n nodes
RECURSIVE ListsUpTo(_)
ListsUpTo(n) ==
    IF n = 0 THEN {<<>>}
    ELSE ListsUpTo(n - 1) \cup
         {Append(l, x) : l \in {y \in ListsUpTo(n - 1) : Len(y) = n - 1},
                         x \in HeapPeers}

\* the identifiers pushed, recorded until another operation is used
NotOnlyPushes == [only |-> FALSE, ids |-> {}]
PushedWith(nodes) ==
    IF ~pushed.only THEN pushed
    ELSE [pushed EXCEPT !.ids = @ \cup {nodes[i].id : i \in 1..Len(nodes)}]

\* push(nodes) with a list of nodes
HeapPush(nodes) ==
    /\ heap' = heap_push(heap, HeapRef, nodes)
    /\ hlast' = HeapOp("push", nodes, {}, NoneNode)
    /\ pushed' = PushedWith(nodes)
    /\ UNCHANGED <<contacted, maxsize, protoVars, rpcVars, crawlVars, taskVars, distVars>>

\* push(node) with a single node
HeapPushNode(node) ==
    /\ heap' = heap_push_node(heap, HeapRef, node)
    /\ hlast' = HeapOp("push", <<node>>, {}, NoneNode)
    /\ pushed' = PushedWith(<<node>>)
    /\ UNCHANGED <<contacted, maxsize, protoVars, rpcVars, crawlVars, taskVars, distVars>>

HeapRemove(ids) ==
    /\ heap' = heap_remove(heap, KeysInOrder(ids))
    /\ hlast' = HeapOp("remove", <<>>, ids, NoneNode)
    /\ pushed' = NotOnlyPushes
    /\ UNCHANGED <<contacted, maxsize, protoVars, rpcVars, crawlVars, taskVars, distVars>>

HeapPopleft ==
    LET r == heap_popleft(heap, maxsize)
    IN /\ heap' = r.heap
       /\ hlast' = HeapOp("popleft", <<>>, {}, r.ret)
       /\ pushed' = NotOnlyPushes
       /\ UNCHANGED <<contacted, maxsize, protoVars, rpcVars, crawlVars, taskVars, distVars>>

\* mark_contacted(n) of a node get_uncontacted returned, as a crawl marks the
\* peers it selects
HeapMarkContacted(n) ==
    /\ n \in SeqRange(get_uncontacted(heap, maxsize, contacted))
    /\ contacted' = mark_contacted(contacted, n)
    /\ hlast' = HeapOp("mark_contacted", <<n>>, {}, NoneNode)
    /\ UNCHANGED <<heap, maxsize, pushed, protoVars, rpcVars, crawlVars, taskVars, distVars>>

InitHeap ==
    /\ ProtoInit
    /\ \E m \in 0..MaxSize : HeapInit(m)
    /\ RpcInit
    /\ CrawlIdle
    /\ NoTasks
    /\ DistIdle

NextHeap ==
    \/ \E nodes \in ListsUpTo(MaxPush) : HeapPush(nodes)
    \/ \E node \in HeapPeers : HeapPushNode(node)
    \/ \E ids \in {S \in SUBSET HeapPeerIds : Cardinality(S) <= MaxRemove} :
          HeapRemove(ids)
    \/ HeapPopleft
    \/ \E n \in HeapPeers : HeapMarkContacted(n)

SpecHeap == InitHeap /\ [][NextHeap]_vars

(***************************************************************************)
(* Outbound calls: the call_* coroutines of KademliaProtocol over the RPC  *)
(* transaction layer (kademlia/rpc.py is not part of the source tree; the  *)
(* PendingCall table, its deadline and the demultiplexing of replies are   *)
(* modelled from spec.md 3, 4.3 and 5).                                    *)
(***************************************************************************)
TxIds == 1..MaxCalls

\* the calls made: one of each kind
OutboundCalls ==
    {Call("ping", PeerOf(to_bytes(1)), NoKey, PyNone),
     Call("store", PeerOf(to_bytes(9)), to_bytes(3), "v1"),
     Call("find_node", PeerOf(to_bytes(1)), to_bytes(11), PyNone),
     Call("find_value", PeerOf(to_bytes(9)), to_bytes(3), PyNone)}

\* the request a call_* coroutine sends: the peer's address, the identifier
\* of source_node and the arguments of the call, under transaction id tx
Request(tx, call) ==
    [txid |-> tx, kind |-> call.kind, address |-> call.peer.addr,
     sender |-> source_node.id, key |-> call.key, value |-> call.value]

\* the answer of the peer living at the address of a request
ReplyTo(req) ==
    CASE req.kind = "ping" ->
            RetId(CHOOSE id \in PeerIds : AddrOf(id) = req.address)
      [] req.kind = "store" -> RetBool(TRUE)
      [] req.kind = "find_node" -> RetList(<<>>)
      [] req.kind = "find_value" -> RetDict("v1")

\* PendingCall registration and removal
register(pd, tx, call) ==
    [t \in (DOMAIN pd) \cup {tx} |-> IF t = tx THEN call ELSE pd[t]]
discard(pd, tx) == [t \in (DOMAIN pd) \ {tx} |-> pd[t]]

\* a call_* coroutine that sends its request again when the call failed
call_returns_retrying(bk, st, result, call) ==
    [out |-> handle_call_response(bk, st, result, call.peer),
     again |-> IF result[1] THEN <<>> ELSE <<call>>]

\* a call_* coroutine that returns the result without handle_call_response
call_returns_unhandled(bk, st, result, call) ==
    [out |-> Outcome(bk, st, <<>>, 0, 0, result), again |-> <<>>]

\* call_ping / call_store / call_find_node / call_find_value from the await
\* on: the result goes to handle_call_response once, its value is returned,
\* and nothing is sent again
call_returns(bk, st, result, call) ==
    [out |-> handle_call_response(bk, st, result, call.peer),
     again |-> <<>>]

\* the caller awaiting tx is resumed with result
Resume(tx, result, ev) ==
    LET call == pending[tx]
        r == call_returns(buckets, storage, result, call)
    IN /\ buckets' = r.out.bk
       /\ storage' = r.out.st
       /\ resolved' = [resolved EXCEPT ![tx] = Append(@, r.out.ret)]
       /\ pending' = IF r.again = <<>> THEN discard(pending, tx)
                     ELSE register(pending, tx, r.again[1])
       /\ requests' = requests \o [i \in 1..Len(r.again) |-> Request(tx, r.again[i])]
       /\ rlast' = ev
       /\ tasks' = tasks \o r.out.spawned
       /\ UNCHANGED <<last, written, started, heapVars, crawlVars, distVars>>

\* call_*(peer, ...) up to its await: a fresh transaction id, a PendingCall
\* and one request datagram
Send(call) ==
    /\ started < MaxCalls
    /\ started' = started + 1
    /\ pending' = register(pending, started + 1, call)
    /\ requests' = Append(requests, Request(started + 1, call))
    /\ resolved' = Append(resolved, <<>>)
    /\ rlast' = Event("call", started + 1, FALSE)
    /\ UNCHANGED <<protoVars, heapVars, crawlVars, datagrams, answered, distVars>>

\* a call made by a caller that awaits it
CallStart(call) ==
    /\ Send(call)
    /\ UNCHANGED taskVars

\* the peer answers the request tx, whether or not the caller still waits
PeerReplies(tx) ==
    /\ tx \in 1..started
    /\ tx \notin answered
    /\ answered' = answered \cup {tx}
    /\ datagrams' = datagrams \cup {tx}
    /\ rlast' = Event("reply", tx, FALSE)
    /\ UNCHANGED <<protoVars, heapVars, crawlVars, pending, started, requests, resolved, taskVars, distVars>>

\* a reply datagram arrives; the transport may deliver it again later (dup).
\* It resolves the PendingCall of its transaction id, or is dropped.
Deliver(tx, dup) ==
    /\ tx \in datagrams
    /\ datagrams' = IF dup THEN datagrams ELSE datagrams \ {tx}
    /\ UNCHANGED answered
    /\ IF tx \in DOMAIN pending
       THEN Resume(tx, <<TRUE, ReplyTo(requests[tx])>>, Event("deliver", tx, FALSE))
       ELSE /\ rlast' = Event("deliver", tx, TRUE)
            /\ UNCHANGED <<protoVars, heapVars, crawlVars, pending, started, requests, resolved, taskVars, distVars>>

\* the deadline of a PendingCall elapses
Timeout(tx) ==
    /\ tx \in DOMAIN pending
    /\ Resume(tx, FailedResult, Event("timeout", tx, FALSE))
    /\ UNCHANGED <<datagrams, answered>>

InitRpc ==
    /\ ProtoInit
    /\ HeapInit(KSize)
    /\ RpcInit
    /\ CrawlIdle
    /\ NoTasks
    /\ DistIdle

NextRpc ==
    \/ \E call \in OutboundCalls : CallStart(call)
    \/ \E tx \in TxIds : PeerReplies(tx)
    \/ \E tx \in TxIds, dup \in BOOLEAN : Deliver(tx, dup)
    \/ \E tx \in TxIds : Timeout(tx)

\* every PendingCall has a deadline, and the timer fires
SpecRpc ==
    /\ InitRpc
    /\ [][NextRpc]_vars
    /\ \A tx \in TxIds : WF_vars(Timeout(tx))

(***************************************************************************)
(* Detached calls: the inbound handlers, the calls welcome_if_new schedules *)
(* with asyncio.ensure_future, and the course of each of them over the RPC *)
(* transaction layer, in any interleaving.                                 *)
(***************************************************************************)
\* a handler runs to its return: its effects and result as in Apply, and the
\* calls it spawned are scheduled, none of them started
Detached(op, p, k, v, out) ==
    /\ Len(tasks) + Len(out.spawned) <= MaxCalls
    /\ Apply(op, p, k, v, FailedResult, out)
    /\ tasks' = tasks \o out.spawned

PingDetached(p) ==
    Detached("rpc_ping", p, NoKey, PyNone, rpc_ping(buckets, storage, p.addr, p.id))

StoreDetached(p, k, v) ==
    Detached("rpc_store", p, k, v, rpc_store(buckets, storage, p.addr, p.id, k, v))

FindNodeDetached(p, k) ==
    Detached("rpc_find_node", p, k, PyNone,
             rpc_find_node(buckets, storage, p.addr, p.id, k))

\* the event loop starts the oldest scheduled call: it runs up to its await
RunTask ==
    /\ tasks # <<>>
    /\ Send(Head(tasks))
    /\ tasks' = Tail(tasks)

\* the peers whose requests arrive, the key and the value they store
DetachedPeers == {PeerOf(to_bytes(1)), PeerOf(to_bytes(9))}
DetachedKey == to_bytes(11)
DetachedValue == "v1"

InitDetached == Init

NextDetached ==
    \/ \E p \in DetachedPeers : PingDetached(p)
    \/ \E p \in DetachedPeers : StoreDetached(p, DetachedKey, DetachedValue)
    \/ \E p \in DetachedPeers : FindNodeDetached(p, DetachedKey)
    \/ RunTask
    \/ \E tx \in TxIds : PeerReplies(tx)
    \/ \E tx \in TxIds, dup \in BOOLEAN : Deliver(tx, dup)
    \/ \E tx \in TxIds : Timeout(tx)

SpecDetached == InitDetached /\ [][NextDetached]_vars

(***************************************************************************)
(* The iterative crawler (kademlia/crawling.py is not part of the source   *)
(* tree; its state machine is modelled from spec.md 4.5 and 5) over        *)
(* NodeHeap and handle_call_response.                                      *)
(***************************************************************************)
\* the key a crawl looks up
CrawlTarget == to_bytes(11)

\* the peers holding the value a value lookup is after
ValueHolders == {PeerOf(to_bytes(14))}

\* the routing tables a crawl starts from: add_contact of some peers, in
\* the order of their identifiers
RECURSIVE TableOf(_, _)
TableOf(bk, ids) ==
    IF ids = <<>> THEN bk
    ELSE TableOf(add_contact(bk, PeerOf(Head(ids))).bk, Tail(ids))

\* the peer lists a find_node or find_value reply can carry: up to k peers
RepliedLists ==
    {l \in {KeysInOrder(S) : S \in SUBSET PeerIds} : Len(l) <= KSize}

NodesOf(ids) == [i \in 1..Len(ids) |-> PeerOf(ids[i])]

\* one call of a round: the peer asked, and the result once it has settled
RoundCall(p) == [peer |-> p, settled |-> FALSE, result |-> FailedResult]

\* the identifier of the closest entry of the heap, if any
closest_id(h, m) ==
    LET it == heap_iter(h, m) IN IF it = <<>> THEN NoKey ELSE it[1].id

\* Round: up to alpha uncontacted peers of the visible set
select_peers(h, m, c) == Take(get_uncontacted(h, m, c), Alpha)

\* a round that marks none of the peers it selects
mark_all_none(c, nodes) == c

RECURSIVE mark_all(_, _)
mark_all(c, nodes) ==
    IF nodes = <<>> THEN c ELSE mark_all(mark_contacted(c, Head(nodes)), Tail(nodes))

\* Fold: a failed peer is dropped from the heap, the peers a reply carries
\* are pushed
RECURSIVE fold_responses(_, _, _)
fold_responses(h, ref, calls) ==
    IF calls = <<>> THEN h
    ELSE LET c == Head(calls)
             nh == IF ~c.result[1] THEN heap_remove(h, <<c.peer.id>>)
                   ELSE IF c.result[2].tag = "list"
                        THEN heap_push(h, ref, NodesOf(c.result[2].val))
                        ELSE h
         IN CHOOSE r \in {fold_responses(folded, ref, Tail(calls)) : folded \in {nh}} : TRUE

\* the value a reply of the round carries, if any
found_value(calls) ==
    IF \E i \in 1..Len(calls) : calls[i].result[1] /\ calls[i].result[2].tag = "dict"
    THEN "v1" ELSE Absent

AllSettled(calls) == \A i \in 1..Len(calls) : calls[i].settled
AllFailed(calls) == calls # <<>> /\ \A i \in 1..Len(calls) : ~calls[i].result[1]

\* Round: select, mark contacted, issue the calls
CrawlRound ==
    /\ crawl.phase = "round"
    /\ \E peers \in {select_peers(heap, maxsize, contacted)} :
          /\ contacted' = mark_all(contacted, peers)
          /\ queried' = queried \o [i \in 1..Len(peers) |-> peers[i].id]
          /\ crawl' = [crawl EXCEPT !.phase = "wait",
                                    !.calls = [i \in 1..Len(peers) |-> RoundCall(peers[i])],
                                    !.closest = closest_id(heap, maxsize)]
    /\ UNCHANGED <<protoVars, rpcVars, heap, maxsize, hlast, pushed, taskVars, distVars>>

\* call i of the round is resumed with result: call_find_node and
\* call_find_value hand it to handle_call_response
Settle(i, result) ==
    /\ crawl.phase = "wait"
    /\ ~crawl.calls[i].settled
    /\ \E out \in {handle_call_response(buckets, storage, result, crawl.calls[i].peer)} :
          /\ buckets' = out.bk
          /\ storage' = out.st
          /\ crawl' = [crawl EXCEPT !.calls[i].settled = TRUE,
                                    !.calls[i].result = out.ret]
    /\ UNCHANGED <<last, written, heapVars, rpcVars, queried, taskVars, distVars>>

\* the peer asked answers with a list of peers other than itself
CrawlReply(i, ids) ==
    /\ i \in 1..Len(crawl.calls)
    /\ crawl.calls[i].peer.id \notin SeqRange(ids)
    /\ Settle(i, <<TRUE, RetList(ids)>>)

\* a peer holding the value answers a value lookup with it
CrawlValueReply(i) ==
    /\ crawl.kind = "value"
    /\ i \in 1..Len(crawl.calls)
    /\ crawl.calls[i].peer \in ValueHolders
    /\ Settle(i, <<TRUE, RetDict("v1")>>)

\* the call times out
CrawlTimeout(i) ==
    /\ i \in 1..Len(crawl.calls)
    /\ Settle(i, FailedResult)

\* Fold and convergence check, once every call of the round has settled
CrawlFold ==
    /\ crawl.phase = "wait"
    /\ AllSettled(crawl.calls)
    /\ \E nh \in {fold_responses(heap, KeyNode(crawl.target), crawl.calls)} :
       LET v == IF crawl.kind = "value" THEN found_value(crawl.calls) ELSE Absent
           over == \/ v # Absent
                   \/ /\ closest_id(nh, maxsize) = crawl.closest
                      /\ have_contacted_all(nh, maxsize, contacted)
       IN /\ heap' = nh
          /\ crawl' = [crawl EXCEPT
                          !.phase = IF over THEN "done" ELSE "round",
                          !.found = v,
                          !.dropped = IF AllFailed(crawl.calls)
                                      THEN @ \cup {crawl.calls[i].peer : i \in 1..Len(crawl.calls)}
                                      ELSE @]
    /\ UNCHANGED <<protoVars, rpcVars, contacted, maxsize, hlast, pushed, queried, taskVars, distVars>>

\* Init: a node or value lookup of a key, its heap of bound ksize seeded
\* with the ksize closest known peers
InitCrawl ==
    /\ \E S \in SUBSET PeerIds : buckets = TableOf(InitBuckets, KeysInOrder(S))
    /\ storage = EmptyStorage
    /\ last = NoOp
    /\ written = EmptyStorage
    /\ RpcInit
    /\ \E kind \in {"node", "value"}, target \in {CrawlTarget} :
          /\ crawl = [NoCrawl EXCEPT !.phase = "round", !.kind = kind,
                                      !.target = target, !.table = KnownIds(buckets)]
          /\ heap = heap_push(<<>>, KeyNode(target),
                              find_neighbors(buckets, KeyNode(target), CrawlKSize, NoNode))
    /\ maxsize = CrawlKSize
    /\ contacted = {}
    /\ hlast = HeapOp("init", <<>>, {}, NoneNode)
    /\ pushed = NotOnlyPushes
    /\ queried = <<>>
    /\ NoTasks
    /\ DistIdle

NextCrawl ==
    \/ CrawlRound
    \/ \E i \in 1..Alpha, ids \in RepliedLists : CrawlReply(i, ids)
    \/ \E i \in 1..Alpha : CrawlValueReply(i)
    \/ \E i \in 1..Alpha : CrawlTimeout(i)
    \/ CrawlFold

\* every step of a crawl is taken in the end, and every call has a deadline
SpecCrawl ==
    /\ InitCrawl
    /\ [][NextCrawl]_vars
    /\ WF_vars(CrawlRound)
    /\ WF_vars(CrawlFold)
    /\ \A i \in 1..Alpha : WF_vars(CrawlTimeout(i))

(***************************************************************************)
(* Properties of the protocol handlers, checked under Spec.                *)
(***************************************************************************)
\* the operations whose last step on the table is welcome_if_new(peer)
WelcomeOps ==
    {"rpc_ping", "rpc_find_node", "rpc_find_value", "handle_call_response"}

StoresIn(sp) == {sp[i] : i \in {j \in 1..Len(sp) : sp[j].kind = "store"}}
PingsIn(sp) == {sp[i] : i \in {j \in 1..Len(sp) : sp[j].kind = "ping"}}

\* C1: handle_call_response with a failed result leaves the peer out of the
\* routing table, does not invoke welcome_if_new (nothing is spawned, storage
\* is unchanged) and returns the result it was given.
C1_FailedCallEvictsPeer ==
    [][(last'.op = "handle_call_response" /\ ~last'.result[1]) =>
          /\ is_new_node(buckets', last'.peer)
          /\ last'.peer \notin Known(buckets')
          /\ last'.out.welcomes = 0
          /\ last'.out.spawned = <<>>
          /\ storage' = storage
          /\ last'.out.ret = last'.result]_vars

\* a failed call to a peer the table held, with a value in storage
C1_Witness ==
    /\ last.op = "handle_call_response"
    /\ ~last.result[1]
    /\ ~last.wasNew
    /\ StoredKeys(storage) # {}

\* C2 (as claimed): rpc_find_value returns {"value": v} with no neighbour
\* lookup when storage holds the key, and what rpc_find_node returns in the
\* same state when it does not.
C2_FindValueAsClaimed ==
    [][last'.op = "rpc_find_value" =>
          IF storage[last'.key] # Absent
          THEN /\ last'.out.ret = RetDict(storage[last'.key])
               /\ last'.out.lookups = 0
          ELSE last'.out.ret =
                   rpc_find_node(buckets, storage, last'.peer.addr,
                                 last'.peer.id, last'.key).ret]_vars

\* C3 (as claimed): rpc_store returns success and overwrites, and a later
\* rpc_find_value of a key returns {"value": V} for the value V last stored
\* under it (no store to the key and no expiry of it in between).
C3_StoreThenFindValueAsClaimed ==
    /\ last.op = "rpc_store" =>
          /\ last.out.ret = RetBool(TRUE)
          /\ storage[last.key] = last.value
    /\ (last.op = "rpc_find_value" /\ written[last.key] # Absent) =>
          last.out.ret = RetDict(written[last.key])

NearestKnown(bk, target) ==
    {x \in Known(bk) :
        Cardinality({y \in Known(bk) :
            distance_to(y, target) < distance_to(x, target)}) < KSize}

\* the new peer is strictly closer to the key's target than the farthest of
\* the k nearest known peers, and this node strictly closer than the nearest
CloserThanNeighbours(bk, key, node) ==
    LET target == KeyNode(digest(key))
        N == NearestKnown(bk, target)
    IN /\ \E f \in N :
            /\ \A y \in N : distance_to(y, target) <= distance_to(f, target)
            /\ distance_to(node, target) < distance_to(f, target)
       /\ \E n \in N :
            /\ \A y \in N : distance_to(n, target) <= distance_to(y, target)
            /\ distance_to(source_node, target) < distance_to(n, target)

\* the operation invoked welcome_if_new once, for a peer that was new
WelcomedNewPeerOnce(l) == l.out.welcomes = 1 /\ l.wasNew

\* C5 (as claimed): welcome_if_new of a new peer issues call_store for a
\* stored pair iff the peer is closer to the key's target than the farthest
\* of the k nearest neighbours and this node closer than the nearest.
C5_RepublishAsClaimed ==
    [][WelcomedNewPeerOnce(last') =>
          StoresIn(last'.out.spawned) =
              {Call("store", last'.peer, k, storage[k]) :
                  k \in {x \in StoredKeys(storage) :
                            CloserThanNeighbours(buckets, x, last'.peer)}}]_vars

\* C5 (amended): ... iff no neighbour is known, or the peer is closer to the
\* key's target than the farthest of the k nearest neighbours and this node
\* closer than the nearest; one call per such pair, none for any other.
C5_RepublishIffCloserOrNoNeighbours ==
    [][WelcomedNewPeerOnce(last') =>
          /\ StoresIn(last'.out.spawned) =
                {Call("store", last'.peer, k, storage[k]) :
                    k \in {x \in StoredKeys(storage) :
                              \/ Known(buckets) = {}
                              \/ CloserThanNeighbours(buckets, x, last'.peer)}}
          /\ Cardinality(StoresIn(last'.out.spawned)) =
                Len(last'.out.spawned) - Cardinality(PingsIn(last'.out.spawned))
      ]_vars

\* a new peer was welcomed by a node that knows peers and holds two values,
\* one of which went to the new peer and one of which did not
C5_Witness ==
    /\ last.op = "rpc_ping"
    /\ last.wasNew
    /\ Cardinality(Known(buckets)) > 1
    /\ \E k1, k2 \in StoredKeys(storage) :
          /\ Call("store", last.peer, k1, storage[k1]) \in StoresIn(last.out.spawned)
          /\ Call("store", last.peer, k2, storage[k2]) \notin StoresIn(last.out.spawned)

Awaiting(tx) == tx <= started /\ tx \in DOMAIN pending

\* the caller of tx was resumed, once
ResolvedOnce(tx) == tx <= started /\ Len(resolved[tx]) = 1

\* a reply whose transaction id has no PendingCall is dropped; a dropped reply
\* changes no table, no request log and no protocol state; and the result a
\* caller was resumed with is never changed
RepliesToNoPendingCallDropped ==
    /\ (rlast'.op = "deliver" /\ rlast'.txid \notin DOMAIN pending) => rlast'.ignored
    /\ rlast'.ignored =>
          UNCHANGED <<pending, resolved, requests, started, protoVars>>
    /\ \A tx \in 1..started : resolved[tx] # <<>> => resolved'[tx] = resolved[tx]

\* C7: every outbound call resolves exactly once, with the reply to its own
\* request or, at the deadline, with (False, None); its PendingCall is
\* discarded when it resolves, so a late or duplicate reply with the same
\* transaction id is dropped and changes no result; one request datagram is
\* sent per call, never a second one.
C7_CallResolvesExactlyOnce ==
    /\ [](\A tx \in 1..started :
             /\ Len(resolved[tx]) <= 1
             /\ (tx \in DOMAIN pending) <=> (resolved[tx] = <<>>)
             /\ resolved[tx] # <<>> =>
                   \/ resolved[tx][1] = FailedResult
                   \/ resolved[tx][1] = <<TRUE, ReplyTo(requests[tx])>>)
    /\ [](/\ DOMAIN pending \subseteq 1..started
          /\ Len(requests) = started
          /\ \A i \in 1..Len(requests) : requests[i].txid = i)
    /\ [][RepliesToNoPendingCallDropped]_vars
    /\ \A tx \in TxIds : Awaiting(tx) ~> ResolvedOnce(tx)

\* one call resumed with its reply; the other timed out, and the late reply to
\* it has just been dropped
C7_Witness ==
    /\ rlast = Event("deliver", rlast.txid, TRUE)
    /\ rlast.txid \in 1..started
    /\ resolved[rlast.txid] = <<FailedResult>>
    /\ \E tx \in 1..started :
          /\ resolved[tx] = << <<TRUE, ReplyTo(requests[tx])>> >>
          /\ requests[tx].kind = "find_value"

(***************************************************************************)
(* Properties of a crawl, checked under SpecCrawl.                         *)
(***************************************************************************)
\* the positions of queried holding peer p
QueriesOf(p) == {i \in 1..Len(queried) : queried[i] = p.id}

\* the peers of an all-timeout round are absent from the routing table and
\* were queried once
DroppedPeersStayOut ==
    \A p \in crawl.dropped :
        /\ is_new_node(buckets, p)
        /\ Cardinality(QueriesOf(p)) = 1

\* with no uncontacted peer in the visible set a round queries nobody, and
\* the convergence check that follows ends the crawl
StopsWhenAllContacted ==
    /\ (/\ crawl.phase = "round"
        /\ have_contacted_all(heap, maxsize, contacted)
        /\ crawl' # crawl)
       => (queried' = queried /\ crawl'.calls = <<>>)
    /\ (crawl.phase = "wait" /\ crawl.calls = <<>> /\ crawl' # crawl)
       => crawl'.phase = "done"

\* a finished crawl stays finished and queries nobody
DoneIsFinal ==
    crawl.phase = "done" => (crawl'.phase = "done" /\ queried' = queried)

\* C8: a crawl always terminates; the peers of a round in which every call
\* timed out are removed from the routing table and are never queried again
\* in the same crawl; and once no uncontacted peer remains in the visible
\* set of the heap the crawl stops.
C8_CrawlTerminates ==
    /\ <>(crawl.phase = "done")
    /\ [][DoneIsFinal]_vars
    /\ []DroppedPeersStayOut
    /\ [](\A i, j \in 1..Len(queried) : queried[i] = queried[j] => i = j)
    /\ [](crawl.phase = "done" /\ crawl.found = Absent
             => have_contacted_all(heap, maxsize, contacted))
    /\ [][StopsWhenAllContacted]_vars

\* a finished crawl in which a peer of the initial routing table was queried
\* alone, timed out, and another peer was queried in a later round
C8_Witness ==
    /\ crawl.phase = "done"
    /\ \E p \in crawl.dropped :
          /\ p.id \in crawl.table
          /\ \E i \in QueriesOf(p) : i < Len(queried)

(***************************************************************************)
(* Properties of NodeHeap, checked under SpecHeap.                         *)
(***************************************************************************)
Min(a, b) == IF a < b THEN a ELSE b

\* the identifiers of the entries the heap holds
HeldIds == {heap[i][2].id : i \in 1..Len(heap)}

\* the nodes iteration yields, as a set
Yielded == SeqRange(heap_iter(heap, maxsize))

\* C9: after any sequence of push, remove and popleft, len(heap) is
\* min(number of entries held, maxsize) and is the number of peers iteration
\* yields; no identifier is held twice, so after only pushes it is
\* min(number of distinct identifiers pushed, maxsize); a heap with nothing
\* pushed has length 0 and is falsy.
C9_LenIsVisibleSize ==
    /\ heap_len(heap, maxsize) = Min(Len(heap), maxsize)
    /\ heap_len(heap, maxsize) = Min(Cardinality(HeldIds), maxsize)
    /\ heap_len(heap, maxsize) = Len(heap_iter(heap, maxsize))
    /\ pushed.only =>
          /\ HeldIds = pushed.ids
          /\ heap_len(heap, maxsize) = Min(Cardinality(pushed.ids), maxsize)
          /\ (pushed.ids = {} => heap_len(heap, maxsize) = 0)

\* only pushes so far, of more identifiers than maxsize, the last one the
\* push of a list that names one node twice
C9_Witness ==
    /\ pushed.only
    /\ Cardinality(pushed.ids) > maxsize
    /\ hlast.op = "push"
    /\ Len(hlast.nodes) = 2
    /\ hlast.nodes[1] = hlast.nodes[2]
    /\ heap_len(heap, maxsize) = maxsize

\* C10: iteration yields peers in non-decreasing XOR distance to the
\* reference node, and yields exactly the min(count, maxsize) closest entries
\* held: every entry not yielded is at least as far as every entry yielded.
\* With maxsize = 2 and pushes at distances 5, 3 and 9 it yields
\* [peer@3, peer@5].
C10_IterationYieldsClosestAscending ==
    LET it == heap_iter(heap, maxsize)
        d(n) == distance_to(HeapRef, n)
    IN /\ \A i \in 1..(Len(it) - 1) : d(it[i]) <= d(it[i + 1])
       /\ Len(it) = Min(Len(heap), maxsize)
       /\ Cardinality(Yielded) = Len(it)
       /\ \A n \in Yielded : heap_contains(heap, n)
       /\ \A i \in 1..Len(heap) :
             heap[i][2] \notin Yielded =>
                \A n \in Yielded : d(n) <= heap[i][1] /\ heap[i][1] = d(heap[i][2])
       /\ (/\ maxsize = 2
           /\ pushed.only
           /\ pushed.ids = {to_bytes(3), to_bytes(5), to_bytes(15)})
          => it = <<PeerOf(to_bytes(5)), PeerOf(to_bytes(3))>>

\* maxsize = 2 and the nodes at distances 5, 3 and 9 pushed, the farthest last
C10_Witness ==
    /\ maxsize = 2
    /\ pushed.only
    /\ pushed.ids = {to_bytes(3), to_bytes(5), to_bytes(15)}
    /\ hlast.op = "push"
    /\ hlast.nodes = <<PeerOf(to_bytes(15))>>
    /\ [i \in 1..Len(heap) |-> heap[i][1]] = <<3, 5, 9>>
    /\ heap_len(heap, maxsize) = 2

\* the heap holds no identifier twice
NoIdHeldTwice ==
    \A i, j \in 1..Len(heap) : heap[i][2].id = heap[j][2].id => i = j

\* a push of nodes whose identifiers the heap already holds, visible or not,
\* leaves the list of entries and the length as they were
PushOfHeldIsNoOp ==
    (/\ hlast'.op = "push"
     /\ \A i \in 1..Len(hlast'.nodes) : hlast'.nodes[i].id \in HeldIds)
    => /\ heap' = heap
       /\ heap_len(heap', maxsize') = heap_len(heap, maxsize)

\* C11: pushing a peer whose identifier the heap already holds, visible or
\* hidden beyond maxsize, changes neither the entries nor the size of the
\* heap; so after any sequence of push, remove and popleft the heap holds no
\* two entries with the same identifier.
C11_PushOfHeldIdIsNoOp ==
    /\ [][PushOfHeldIsNoOp]_vars
    /\ []NoIdHeldTwice

\* the last operation pushed a node whose identifier is held by an entry
\* hidden beyond maxsize, under another address
C11_Witness ==
    /\ hlast.op = "push"
    /\ hlast.nodes = <<SameIdNode>>
    /\ \E i \in 1..Len(heap) : heap[i][2] = PeerOf(SameIdNode.id)
    /\ SameIdNode.id \notin {n.id : n \in Yielded}
    /\ maxsize > 0

(***************************************************************************)
(* Further properties of the protocol handlers, checked under Spec.        *)
(***************************************************************************)
\* the node a triple (id, ip, port) of a find_node result stands for
NodeOfTriple(t) == Node(t[1], t[2])

\* the known peers other than the sender of a request
KnownButSender(bk, sender) == {x \in Known(bk) : ~is_same_node(x, sender)}

\* C12: rpc_find_node(sender, node_id, key) returns a list of (id, ip, port)
\* triples of known peers, at most k of them, in ascending XOR distance to
\* key: the min(k, number of known peers other than the sender) closest ones;
\* no triple carries the sender's address or identifier, although the
\* sender has been registered in the routing table by then.
C12_FindNodeReturnsClosestWithoutSender ==
    [][last'.op = "rpc_find_node" =>
          LET res == last'.out.ret.val
              target == KeyNode(last'.key)
              others == KnownButSender(buckets', last'.peer)
              d(t) == distance_to(NodeOfTriple(t), target)
          IN /\ last'.out.ret.tag = "list"
             /\ Len(res) <= KSize
             /\ Len(res) = Min(KSize, Cardinality(others))
             /\ \A i \in 1..Len(res) : NodeOfTriple(res[i]) \in others
             /\ \A i \in 1..(Len(res) - 1) : d(res[i]) <= d(res[i + 1])
             /\ \A i, j \in 1..Len(res) : res[i] = res[j] => i = j
             /\ \A x \in others :
                   <<x.id, x.addr>> \notin SeqRange(res) =>
                      \A i \in 1..Len(res) : d(res[i]) <= distance_to(x, target)
             /\ \A i \in 1..Len(res) :
                   /\ res[i][2] # last'.peer.addr
                   /\ res[i][1] # last'.peer.id
             /\ last'.out.lookups = 1
             /\ last'.out.st = storage]_vars

\* rpc_find_node from a sender that was unknown and is registered now, closer
\* to the key than a peer returned, with k peers returned
C12_Witness ==
    /\ last.op = "rpc_find_node"
    /\ last.wasNew
    /\ last.peer \in Known(buckets)
    /\ Len(last.out.ret.val) = KSize
    /\ \E i \in 1..Len(last.out.ret.val) :
          distance_to(last.peer, KeyNode(last.key))
              < distance_to(NodeOfTriple(last.out.ret.val[i]), KeyNode(last.key))

\* C13 (as claimed): a store request arriving through rpc_store with a value
\* that fails the validity check leaves storage unchanged and returns a
\* failure result to its caller.
C13_InvalidStoreRejectedAsClaimed ==
    [][(last'.op = "rpc_store" /\ ~has_valid_value(last'.value)) =>
          /\ storage' = storage
          /\ last'.out.ret # RetBool(TRUE)]_vars

(***************************************************************************)
(* Further properties of NodeHeap, checked under SpecHeap.                 *)
(***************************************************************************)
\* the entries (distance, node) a heap list holds, as a set
EntriesOf(h) == SeqRange(h)

\* remove(ids) leaves exactly the entries whose identifier is not in ids,
\* each once and with its distance, and leaves the contacted set alone
RemoveKeepsTheOthers ==
    hlast'.op = "remove" =>
        /\ \A i \in 1..Len(heap') : heap'[i][2].id \notin hlast'.ids
        /\ EntriesOf(heap') = {e \in EntriesOf(heap) : e[2].id \notin hlast'.ids}
        /\ Len(heap') = Cardinality(EntriesOf(heap'))
        /\ contacted' = contacted
        /\ maxsize' = maxsize
        /\ heap_len(heap', maxsize') = Min(Cardinality(HeldIds \ hlast'.ids), maxsize)
        /\ Len(heap_iter(heap', maxsize')) = heap_len(heap', maxsize')
        /\ hlast'.ids = {} => heap' = heap

\* C14: after remove(ids) the heap holds no entry whose identifier is in ids,
\* every other entry is still held with its distance, the contacted set is
\* unchanged and the visible size is min(remaining entries, maxsize), the
\* visible set being the closest of the remaining entries, so that entries
\* hidden beyond maxsize become visible; remove([]) changes nothing.
C14_RemoveDeletesExactlyIds ==
    /\ [][RemoveKeepsTheOthers]_vars
    /\ [](hlast.op = "remove" =>
             \A i \in 1..Len(heap) :
                heap[i][2] \notin Yielded =>
                   /\ Len(heap_iter(heap, maxsize)) = maxsize
                   /\ \A n \in Yielded : distance_to(HeapRef, n) <= heap[i][1])

\* remove of two identifiers, one visible and one not held, from a heap of
\* more than maxsize entries with a contacted peer: an entry that was hidden
\* is visible now
C14_Witness ==
    /\ hlast.op = "remove"
    /\ Cardinality(hlast.ids) = 2
    /\ hlast.ids \cap hlast.visible # {}
    /\ hlast.ids \ hlast.held # {}
    /\ Cardinality(hlast.held) > maxsize
    /\ contacted # {}
    /\ \E n \in Yielded : n.id \in hlast.held \ hlast.visible

\* the entry of a heap list at the least distance
MinEntry(h) == CHOOSE e \in EntriesOf(h) : \A f \in EntriesOf(h) : e[1] <= f[1]

\* C15 (as claimed): popleft on a heap holding at least one entry removes and
\* returns the entry at the minimum distance to the reference node, for every
\* maxsize; on a heap holding no entry it returns None and changes nothing.
C15_PopleftReturnsMinAsClaimed ==
    [][hlast'.op = "popleft" =>
          IF heap # <<>>
          THEN /\ hlast'.ret = MinEntry(heap)[2]
               /\ EntriesOf(heap') = EntriesOf(heap) \ {MinEntry(heap)}
               /\ Len(heap') = Len(heap) - 1
          ELSE /\ hlast'.ret = NoneNode
               /\ heap' = heap]_vars

(***************************************************************************)
(* Properties of Node.distance_to, checked under SpecDistance.             *)
(***************************************************************************)
\* the integer whose bits are all ones, of the width of an identifier
AllOnesInt == (2 ^ (ByteBits * IdBytes)) - 1

\* C16: for all nodes a and b, a.distance_to(b) = b.distance_to(a),
\* a.distance_to(a) = 0, and a.distance_to(b) = 0 if and only if the
\* identifiers of a and b are equal byte for byte; the all-zero and the
\* all-one identifier are at the distance of the all-ones integer of the
\* identifier width.
C16_DistanceSymmetricZeroIffEqual ==
    dist.measured =>
        /\ dist.ab = dist.ba
        /\ dist.aa = 0
        /\ dist.bb = 0
        /\ (dist.ab = 0) <=> (pair[1].id = pair[2].id)
        /\ (pair[1].id = AllZeroId /\ pair[2].id = AllOneId) => dist.ab = AllOnesInt
        /\ (pair[1].id = AllOneId /\ pair[2].id = AllZeroId) => dist.ab = AllOnesInt
        /\ dist.ab \in 0..AllOnesInt

\* the distance between the all-zero and the all-one identifier was measured
C16_Witness ==
    /\ dist.measured
    /\ pair[1].id = AllZeroId
    /\ pair[2].id = AllOneId
    /\ dist.ab = AllOnesInt
    /\ dist.ab # 0

(***************************************************************************)
(* Properties of detached calls, checked under SpecDetached.               *)
(***************************************************************************)
\* the step is the return of an inbound handler
HandlerReturns == last' # last

\* the step resumes the call of transaction id tx with the timeout result
TimesOut(tx) ==
    /\ tx \in DOMAIN pending
    /\ tx \notin DOMAIN pending'
    /\ resolved'[tx] = <<FailedResult>>

\* the result each inbound handler returns
NormalResult(l) ==
    CASE l.op = "rpc_ping" -> RetId(source_node.id)
      [] l.op = "rpc_store" -> RetBool(TRUE)
      [] l.op = "rpc_find_node" ->
            RetList(Triples(find_neighbors(l.out.bk, KeyNode(l.key), KSize, l.peer)))

\* a handler returns its result with the calls it spawned scheduled and not
\* one of them started: no request sent, no PendingCall, nothing resolved
HandlerDoesNotWait ==
    HandlerReturns =>
        /\ last'.out.ret = NormalResult(last')
        /\ tasks' = tasks \o last'.out.spawned
        /\ UNCHANGED <<pending, started, requests, resolved>>

\* the timeout of a republish call leaves the handlers' results and the
\* storage as they were, and schedules nothing
RepublishFailureSpares(tx) ==
    /\ last' = last
    /\ storage' = storage
    /\ written' = written
    /\ tasks' = tasks

\* C17 (as claimed): the handler returns its normal result without waiting
\* for the republish call, and a timeout of that call changes neither the
\* result of the triggering request nor the routing table nor storage.
C17_RepublishFailureOnlyLoggedAsClaimed ==
    [][/\ HandlerDoesNotWait
       /\ \A tx \in TxIds :
             (TimesOut(tx) /\ pending[tx].kind = "store") =>
                /\ RepublishFailureSpares(tx)
                /\ buckets' = buckets]_vars

\* C17 (amended): the handler returns its normal result without waiting for
\* the republish call, and a timeout of that call changes neither the result
\* of the triggering request nor storage; but it goes through
\* handle_call_response as the timeout of any call does, and the peer the
\* call was sent to is removed from the routing table, every other peer
\* staying.
C17_RepublishFailureEvictsPeerOnly ==
    [][/\ HandlerDoesNotWait
       /\ \A tx \in TxIds :
             (TimesOut(tx) /\ pending[tx].kind = "store") =>
                /\ RepublishFailureSpares(tx)
                /\ buckets' = remove_contact(buckets, pending[tx].peer)
                /\ is_new_node(buckets', pending[tx].peer)
                /\ Known(buckets') =
                      {x \in Known(buckets) : x.id # pending[tx].peer.id}]_vars

\* a peer was welcomed and registered by a handler that spawned a republish
\* call to it and returned; the call was started later and has just timed
\* out, and the peer is no longer in the routing table
C17_Witness ==
    /\ rlast.op = "timeout"
    /\ requests[rlast.txid].kind = "store"
    /\ resolved[rlast.txid] = <<FailedResult>>
    /\ last.op = "rpc_ping"
    /\ last.peer.addr = requests[rlast.txid].address
    /\ last.wasNew
    /\ ~last.wasFull
    /\ StoresIn(last.out.spawned) # {}
    /\ last.out.ret = RetId(source_node.id)
    /\ is_new_node(buckets, last.peer)
    /\ storage[DetachedKey] = DetachedValue

(***************************************************************************)
(* Further properties of a crawl, checked under SpecCrawl.                 *)
(***************************************************************************)
\* the peers asked by the calls of a round
PeersOf(calls) == {calls[i].peer : i \in 1..Len(calls)}

\* a round queries at most alpha peers, each an uncontacted member of the
\* visible set as the round starts, each once, and marks them contacted
RoundQueriesUncontacted ==
    (crawl.phase = "round" /\ crawl'.phase = "wait") =>
        /\ Len(crawl'.calls) <= Alpha
        /\ PeersOf(crawl'.calls)
              \subseteq SeqRange(get_uncontacted(heap, maxsize, contacted))
        /\ PeersOf(crawl'.calls) \subseteq SeqRange(heap_iter(heap, maxsize))
        /\ \A p \in PeersOf(crawl'.calls) : p.id \notin contacted
        /\ Cardinality(PeersOf(crawl'.calls)) = Len(crawl'.calls)
        /\ contacted' = contacted \cup {p.id : p \in PeersOf(crawl'.calls)}
        /\ queried' = queried \o [i \in 1..Len(crawl'.calls) |-> crawl'.calls[i].peer.id]
        /\ \A i \in 1..Len(crawl'.calls) : ~crawl'.calls[i].settled

\* the fold and the convergence check of a round come after every call of
\* the round has settled: until then the heap and the closest peer recorded
\* are left alone and no new round begins
RoundIsABarrier ==
    /\ (crawl.phase = "wait" /\ crawl'.phase # "wait") => AllSettled(crawl.calls)
    /\ (crawl.phase = "wait" /\ ~AllSettled(crawl.calls)) =>
          /\ heap' = heap
          /\ contacted' = contacted
          /\ queried' = queried
          /\ crawl'.closest = crawl.closest
    /\ \A i \in 1..Len(crawl.calls) :
          (crawl.phase = "wait" /\ crawl'.phase = "wait" /\ crawl.calls[i].settled) =>
             crawl'.calls[i] = crawl.calls[i]

\* C18: each round of a crawl queries at most alpha peers, all of them
\* uncontacted members of the visible set of the heap as the round starts;
\* each is marked contacted when queried, so no peer is queried twice in one
\* crawl; and the convergence check of a round runs only after every call of
\* the round has settled, by a reply or by a timeout.
C18_RoundsQueryUncontactedBehindBarrier ==
    /\ [][RoundQueriesUncontacted]_vars
    /\ [][RoundIsABarrier]_vars
    /\ [](SeqRange(queried) \subseteq contacted)
    /\ [](Cardinality(SeqRange(queried)) = Len(queried))

\* a round of alpha calls, begun with more than alpha uncontacted peers in
\* the visible set, of which one has settled with a reply and one has not
\* settled yet
C18_Witness ==
    /\ crawl.phase = "wait"
    /\ Len(crawl.calls) = Alpha
    /\ get_uncontacted(heap, maxsize, contacted) # <<>>
    /\ \E i, j \in 1..Len(crawl.calls) :
          /\ crawl.calls[i].settled
          /\ crawl.calls[i].result[1]
          /\ ~crawl.calls[j].settled

(***************************************************************************)
(* The routing table under the protocol, checked under Spec.               *)
(***************************************************************************)
\* the ranges of the buckets partition the identifier space, in order
BucketsPartitionIdSpace ==
    /\ Len(buckets) >= 1
    /\ buckets[1].lo = 0
    /\ buckets[Len(buckets)].hi = IdSpace
    /\ \A i \in 1..Len(buckets) : buckets[i].lo < buckets[i].hi
    /\ \A i \in 1..(Len(buckets) - 1) : buckets[i].hi = buckets[i + 1].lo

\* the positions (bucket, index) at which the table holds identifier id
PlacesOf(id) ==
    {<<i, j>> \in (1..Len(buckets)) \X (1..KSize) :
        j <= Len(buckets[i].nodes) /\ buckets[i].nodes[j].id = id}

\* C19: in every state reached by any interleaving of the inbound handlers
\* (ping, store, find_node, find_value) and of handle_call_response
\* (welcome_if_new and add_contact on success, remove_contact on failure),
\* every known peer lies in exactly one bucket, once, the bucket whose range
\* covers its identifier, and no bucket holds more than ksize peers.
C19_KnownPeerInItsOneBucket ==
    /\ BucketsPartitionIdSpace
    /\ \A i \in 1..Len(buckets) :
          /\ Len(buckets[i].nodes) <= KSize
          /\ \A x \in SeqRange(buckets[i].nodes) :
                /\ Covers(buckets[i], x)
                /\ i = get_bucket_for(buckets, x)
                /\ \A j \in 1..Len(buckets) : Covers(buckets[j], x) => j = i
    /\ \A x \in Known(buckets) : Cardinality(PlacesOf(x.id)) = 1

\* a table split into buckets, one of them full, after a call to a new peer
\* of that full bucket succeeded and a call to a known peer failed before
C19_Witness ==
    /\ Len(buckets) > 1
    /\ \E i \in 1..Len(buckets) : Len(buckets[i].nodes) = KSize
    /\ last.op = "handle_call_response"
    /\ last.result[1]
    /\ last.wasNew
    /\ last.wasFull
    /\ Cardinality(Known(buckets)) > KSize

(***************************************************************************)
(* The contacted marks of NodeHeap, checked under SpecHeap.                *)
(***************************************************************************)
\* mark_contacted(p) adds the identifier of p to the contacted set and leaves
\* the entries, the bound and the length alone
MarkLeavesHeapAlone ==
    hlast'.op = "mark_contacted" =>
        /\ heap' = heap
        /\ maxsize' = maxsize
        /\ heap_len(heap', maxsize') = heap_len(heap, maxsize)
        /\ heap_iter(heap', maxsize') = heap_iter(heap, maxsize)
        /\ contacted' = contacted \cup {hlast'.nodes[1].id}

\* C20: get_uncontacted returns exactly the peers of the visible set (the
\* min(count, maxsize) closest entries) whose identifier is not in the
\* contacted set, in the order of iteration; mark_contacted(p) leaves the
\* entries and len unchanged; and the contacted set only grows under push,
\* remove, popleft and mark_contacted, so a peer once marked is never
\* returned by get_uncontacted again, even after it is removed and pushed
\* again.
C20_UncontactedAreVisibleUnmarked ==
    /\ [](LET un == get_uncontacted(heap, maxsize, contacted)
               it == heap_iter(heap, maxsize)
           IN /\ SeqRange(un) = {n \in Yielded : n.id \notin contacted}
              /\ Len(un) = Cardinality(SeqRange(un))
              /\ Len(it) = Min(Len(heap), maxsize)
              /\ \A i \in 1..(Len(un) - 1) :
                    distance_to(HeapRef, un[i]) <= distance_to(HeapRef, un[i + 1])
              /\ have_contacted_all(heap, maxsize, contacted) <=> (un = <<>>))
    /\ [][MarkLeavesHeapAlone]_vars
    /\ [][contacted \subseteq contacted']_vars

\* a peer marked contacted was taken off the heap and has just been pushed
\* again: it is visible, and get_uncontacted returns another peer but not it
C20_Witness ==
    /\ hlast.op = "push"
    /\ \E n \in SeqRange(hlast.nodes) :
          /\ n.id \in contacted
          /\ n.id \notin hlast.held
          /\ n \in Yielded
          /\ n \notin SeqRange(get_uncontacted(heap, maxsize, contacted))
    /\ get_uncontacted(heap, maxsize, contacted) # <<>>

=============================================================================
